---- MODULE Spec2Model ----
(***************************************************************************)
(* A model of the two phase commit example (examples/2pc.rs) and of the    *)
(* register wrapper actor (src/actor/register.rs).                         *)
(*                                                                         *)
(* The two phase commit system is a StateMachine: init pushes one state,   *)
(* next pushes one labelled successor per enabled rule instance.  The      *)
(* engine that drives it takes any of the pushed successors.               *)
(***************************************************************************)
EXTENDS Integers, Sequences, FiniteSets, Bags, TLC

VARIABLES
    rms,          \* TwoPhaseSys.rms: the configured resource managers
    rm_state,     \* TwoPhaseState.rm_state: BTreeMap<R, RmState>
    tm_state,     \* TwoPhaseState.tm_state
    tm_prepared,  \* TwoPhaseState.tm_prepared: BTreeSet<R>
    msgs,         \* TwoPhaseState.msgs: BTreeSet<Message<R>>
    cfg,          \* the RegisterCfg of the wrapper actor
    actor_state,  \* the RegisterState of the wrapper actor, once started
    ret,          \* what the last call of start or advance returned
    network,      \* ActorSystemSnapshot.network, in iteration order
    values        \* what the last call of response_values returned

tpcVars == <<rms, rm_state, tm_state, tm_prepared, msgs>>

regVars == <<cfg, actor_state, ret>>

snapVars == <<network, values>>

vars == <<tpcVars, regVars, snapVars>>

\* The largest resource manager id of a checked configuration.
MaxRM == 3

\* The largest resource manager id when next is applied to arbitrary states.
MaxAnyRM == 2

\* The number of resource managers of the test can_model_2pc.
TestRmCount == 5

\* Actor ids are 1 .. MaxId.
MaxId == 2

\* The longest list of server ids of a client, and of peers of a server.
MaxServers == 2

\* Register values are 0 .. MaxValue.
MaxValue == 3

\* The most envelopes of a network snapshot.
MaxNet == 3

\* Option: None and Some(x)
None == [tag |-> "None"]

Some(x) == [tag |-> "Some", val |-> x]

\* The value of ret before any call of start or advance.
NoCall == [call |-> "none"]

-----------------------------------------------------------------------------
(* Types of examples/2pc.rs *)

RmState == {"Working", "Prepared", "Committed", "Aborted"}

TmState == {"Init", "Committed", "Aborted"}

Prepared(rm) == [type |-> "Prepared", rm |-> rm]

Commit == [type |-> "Commit"]

Abort == [type |-> "Abort"]

Message(R) == {Prepared(rm) : rm \in R} \cup {Commit, Abort}

TwoPhaseSys == [rms |-> rms]

TwoPhaseState ==
    [rm_state |-> rm_state, tm_state |-> tm_state,
     tm_prepared |-> tm_prepared, msgs |-> msgs]

\* BTreeMap::insert: the key is added when absent, its value replaced otherwise.
MapInsert(m, k, v) == [x \in DOMAIN m \cup {k} |-> IF x = k THEN v ELSE m[x]]

\* BTreeMap::get(k) == Some(&v)
MapGetIs(m, k, v) == k \in DOMAIN m /\ m[k] = v

\* StepVec::push
Push(results, lbl, state) == Append(results, <<lbl, state>>)

-----------------------------------------------------------------------------
(* The rules of TwoPhaseSys.  Each takes the results pushed so far and      *)
(* returns them with its own result, when its condition holds.              *)

\* tm_rcv_prepared that does not look for the Prepared message.
tm_rcv_prepared_unasked(sys, rm, state, results) ==
    IF state.tm_state = "Init"
    THEN Push(results, "TM got prepared msg",
              [state EXCEPT !.tm_prepared = @ \cup {rm}])
    ELSE results

tm_rcv_prepared(sys, rm, state, results) ==
    IF state.tm_state = "Init" /\ Prepared(rm) \in state.msgs
    THEN Push(results, "TM got prepared msg",
              [state EXCEPT !.tm_prepared = @ \cup {rm}])
    ELSE results

\* tm_commit that replaces the messages by the Commit message.
tm_commit_overwrite(sys, state, results) ==
    IF state.tm_state = "Init" /\ state.tm_prepared = sys.rms
    THEN Push(results, "TM was able to commit and has informed RMs",
              [state EXCEPT !.tm_state = "Committed", !.msgs = {Commit}])
    ELSE results

\* tm_commit that does not look at the state of the transaction manager.
tm_commit_any_state(sys, state, results) ==
    IF state.tm_prepared = sys.rms
    THEN Push(results, "TM was able to commit and has informed RMs",
              [state EXCEPT !.tm_state = "Committed", !.msgs = @ \cup {Commit}])
    ELSE results

\* tm_commit that asks only that the prepared managers are configured ones.
tm_commit_subset(sys, state, results) ==
    IF state.tm_state = "Init" /\ state.tm_prepared \subseteq sys.rms
    THEN Push(results, "TM was able to commit and has informed RMs",
              [state EXCEPT !.tm_state = "Committed", !.msgs = @ \cup {Commit}])
    ELSE results

tm_commit(sys, state, results) ==
    IF state.tm_state = "Init" /\ state.tm_prepared = sys.rms
    THEN Push(results, "TM was able to commit and has informed RMs",
              [state EXCEPT !.tm_state = "Committed", !.msgs = @ \cup {Commit}])
    ELSE results

\* tm_abort without its condition.
tm_abort_unguarded(sys, state, results) ==
    Push(results, "TM chose to abort",
         [state EXCEPT !.tm_state = "Aborted", !.msgs = @ \cup {Abort}])

\* tm_abort that does not broadcast.
tm_abort_silent(sys, state, results) ==
    IF state.tm_state = "Init"
    THEN Push(results, "TM chose to abort",
              [state EXCEPT !.tm_state = "Aborted"])
    ELSE results

tm_abort(sys, state, results) ==
    IF state.tm_state = "Init"
    THEN Push(results, "TM chose to abort",
              [state EXCEPT !.tm_state = "Aborted", !.msgs = @ \cup {Abort}])
    ELSE results

\* rm_prepare that broadcasts and leaves the resource manager Working.
rm_prepare_no_status(sys, rm, state, results) ==
    IF MapGetIs(state.rm_state, rm, "Working")
    THEN Push(results, "RM is preparing",
              [state EXCEPT !.msgs = @ \cup {Prepared(rm)}])
    ELSE results

rm_prepare(sys, rm, state, results) ==
    IF MapGetIs(state.rm_state, rm, "Working")
    THEN Push(results, "RM is preparing",
              [state EXCEPT !.rm_state = MapInsert(@, rm, "Prepared"),
                            !.msgs = @ \cup {Prepared(rm)}])
    ELSE results

\* rm_choose_to_abort that also lets a prepared resource manager abort.
rm_choose_to_abort_prepared(sys, rm, state, results) ==
    IF MapGetIs(state.rm_state, rm, "Working")
       \/ MapGetIs(state.rm_state, rm, "Prepared")
    THEN Push(results, "RM is choosing to abort",
              [state EXCEPT !.rm_state = MapInsert(@, rm, "Aborted")])
    ELSE results

\* rm_choose_to_abort that also broadcasts, as rm_prepare does.
rm_choose_to_abort_broadcast(sys, rm, state, results) ==
    IF MapGetIs(state.rm_state, rm, "Working")
    THEN Push(results, "RM is choosing to abort",
              [state EXCEPT !.rm_state = MapInsert(@, rm, "Aborted"),
                            !.msgs = @ \cup {Prepared(rm)}])
    ELSE results

rm_choose_to_abort(sys, rm, state, results) ==
    IF MapGetIs(state.rm_state, rm, "Working")
    THEN Push(results, "RM is choosing to abort",
              [state EXCEPT !.rm_state = MapInsert(@, rm, "Aborted")])
    ELSE results

\* rm_rcv_commit_msg without its condition.
rm_rcv_commit_msg_unguarded(sys, rm, state, results) ==
    Push(results, "RM is being told to commit",
         [state EXCEPT !.rm_state = MapInsert(@, rm, "Committed")])

rm_rcv_commit_msg(sys, rm, state, results) ==
    IF Commit \in state.msgs
    THEN Push(results, "RM is being told to commit",
              [state EXCEPT !.rm_state = MapInsert(@, rm, "Committed")])
    ELSE results

\* rm_rcv_abort_msg that puts the resource manager back to Working.
rm_rcv_abort_msg_restart(sys, rm, state, results) ==
    IF Abort \in state.msgs
    THEN Push(results, "RM is being told to abort",
              [state EXCEPT !.rm_state = MapInsert(@, rm, "Working")])
    ELSE results

\* rm_rcv_abort_msg that only a Working resource manager takes.
rm_rcv_abort_msg_working_only(sys, rm, state, results) ==
    IF Abort \in state.msgs /\ MapGetIs(state.rm_state, rm, "Working")
    THEN Push(results, "RM is being told to abort",
              [state EXCEPT !.rm_state = MapInsert(@, rm, "Aborted")])
    ELSE results

rm_rcv_abort_msg(sys, rm, state, results) ==
    IF Abort \in state.msgs
    THEN Push(results, "RM is being told to abort",
              [state EXCEPT !.rm_state = MapInsert(@, rm, "Aborted")])
    ELSE results

-----------------------------------------------------------------------------
(* StateMachine for TwoPhaseSys *)

\* init that starts from an empty map of resource manager states.
init_no_rms(sys, results) ==
    Push(results, "init",
         [rm_state |-> <<>>,
          tm_state |-> "Init",
          tm_prepared |-> {},
          msgs |-> {}])

\* init that pushes nothing when no resource manager is configured.
init_nonempty(sys, results) ==
    IF sys.rms = {} THEN results
    ELSE Push(results, "init",
              [rm_state |-> [rm \in sys.rms |-> "Working"],
               tm_state |-> "Init",
               tm_prepared |-> {},
               msgs |-> {}])

init(sys, results) ==
    Push(results, "init",
         [rm_state |-> [rm \in sys.rms |-> "Working"],
          tm_state |-> "Init",
          tm_prepared |-> {},
          msgs |-> {}])

\* The smallest element: a BTreeSet is iterated in ascending order.
First(S) == CHOOSE x \in S : \A y \in S : x <= y

\* next_rm that leaves out rm_choose_to_abort.
next_rm_no_choice(sys, rm, state, results) ==
    rm_rcv_abort_msg(sys, rm, state,
        rm_rcv_commit_msg(sys, rm, state,
            rm_prepare(sys, rm, state,
                tm_rcv_prepared(sys, rm, state, results))))

\* The body of the loop of next, for one rm.
next_rm(sys, rm, state, results) ==
    rm_rcv_abort_msg(sys, rm, state,
        rm_rcv_commit_msg(sys, rm, state,
            rm_choose_to_abort(sys, rm, state,
                rm_prepare(sys, rm, state,
                    tm_rcv_prepared(sys, rm, state, results)))))

RECURSIVE next_loop(_, _, _, _)
\* for rm in &self.rms, over the resource managers still to visit
next_loop(sys, todo, state, results) ==
    IF todo = {} THEN results
    ELSE next_loop(sys, todo \ {First(todo)}, state,
                   next_rm(sys, First(todo), state, results))

\* next that leaves out tm_abort.
next_no_tm_abort(sys, state, results) ==
    next_loop(sys, sys.rms, state, tm_commit(sys, state, results))

next(sys, state, results) ==
    next_loop(sys, sys.rms, state,
              tm_abort(sys, state, tm_commit(sys, state, results)))

is_consistent(sys, state) ==
    ~ \E rm1 \in sys.rms : \E rm2 \in sys.rms :
        state.rm_state[rm1] = "Aborted" /\ state.rm_state[rm2] = "Committed"

-----------------------------------------------------------------------------
(* Types of src/actor/register.rs *)

Client(server_ids, desired_value) ==
    [tag |-> "Client", server_ids |-> server_ids, desired_value |-> desired_value]

ServerCfg(server_cfg) == [tag |-> "Server", cfg |-> server_cfg]

Put(value) == [type |-> "Put", value |-> value]

Get == [type |-> "Get"]

Respond(value) == [type |-> "Respond", value |-> value]

Internal(server_msg) == [type |-> "Internal", msg |-> server_msg]

ClientState == [tag |-> "Client"]

ServerState(server_state) == [tag |-> "Server", state |-> server_state]

-----------------------------------------------------------------------------
(* The actor interface that register.rs uses *)

\* ActorOutputVec::send: the message is pushed after those sent before.
send(outputs, dst, msg) == Append(outputs, [dst |-> dst, msg |-> msg])

\* ActorInput::Deliver
Deliver(src, msg) == [src |-> src, msg |-> msg]

\* ActorResult::start(state, closure), given the outputs the closure sent.
ActorResult_start(state, outputs) ==
    [action |-> "actor started", state |-> state, outputs |-> outputs]

(* A wrapped server.  RegisterCfg is generic in it; this one keeps a single *)
(* value, tells its peers the value it starts with, stores what a Put or a  *)
(* peer gives it and answers a Get with the value it holds.                 *)

RECURSIVE server_tell(_, _, _, _)
server_tell(peers, i, value, outputs) ==
    IF i > Len(peers) THEN outputs
    ELSE server_tell(peers, i + 1, value,
                     send(outputs, peers[i], Internal(value)))

server_start(server_cfg) ==
    ActorResult_start(0, server_tell(server_cfg.peers, 1, 0, <<>>))

server_advance(server_cfg, server_state, input) ==
    CASE input.msg.type = "Put" ->
           Some([action |-> "put", state |-> input.msg.value,
                 outputs |-> server_tell(server_cfg.peers, 1, input.msg.value, <<>>)])
      [] input.msg.type = "Get" ->
           Some([action |-> "get", state |-> server_state,
                 outputs |-> send(<<>>, input.src, Respond(server_state))])
      [] input.msg.type = "Internal" ->
           IF input.msg.msg = server_state THEN None
           ELSE Some([action |-> "sync", state |-> input.msg.msg, outputs |-> <<>>])
      [] OTHER -> None

-----------------------------------------------------------------------------
(* impl Actor for RegisterCfg *)

RECURSIVE start_loop_get_first(_, _, _, _)
\* start_loop that sends the Get before the Put.
start_loop_get_first(server_ids, i, desired_value, outputs) ==
    IF i > Len(server_ids) THEN outputs
    ELSE start_loop_get_first(server_ids, i + 1, desired_value,
                    send(send(outputs, server_ids[i], Get),
                         server_ids[i], Put(desired_value)))

RECURSIVE start_loop(_, _, _, _)
\* for server_id in server_ids, from the i-th on
start_loop(server_ids, i, desired_value, outputs) ==
    IF i > Len(server_ids) THEN outputs
    ELSE start_loop(server_ids, i + 1, desired_value,
                    send(send(outputs, server_ids[i], Put(desired_value)),
                         server_ids[i], Get))

start(self) ==
    IF self.tag = "Client"
    THEN ActorResult_start(ClientState,
             start_loop(self.server_ids, 1, self.desired_value, <<>>))
    ELSE LET server_result == server_start(self.cfg) IN
         [action |-> server_result.action,
          state |-> ServerState(server_result.state),
          outputs |-> server_result.outputs]

\* advance that hands a Client state to the server as the state 0.
advance_any_state(self, state, input) ==
    LET server_state == IF state.tag = "Server" THEN state.state ELSE 0 IN
    IF self.tag = "Server"
       /\ server_advance(self.cfg, server_state, input).tag = "Some"
    THEN LET server_result == server_advance(self.cfg, server_state, input).val IN
         Some([action |-> server_result.action,
               state |-> ServerState(server_result.state),
               outputs |-> server_result.outputs])
    ELSE None

\* advance that does not pass on the outputs of the server.
advance_no_outputs(self, state, input) ==
    IF self.tag = "Server" /\ state.tag = "Server"
       /\ server_advance(self.cfg, state.state, input).tag = "Some"
    THEN LET server_result == server_advance(self.cfg, state.state, input).val IN
         Some([action |-> server_result.action,
               state |-> ServerState(server_result.state),
               outputs |-> <<>>])
    ELSE None

advance(self, state, input) ==
    IF self.tag = "Server" /\ state.tag = "Server"
       /\ server_advance(self.cfg, state.state, input).tag = "Some"
    THEN LET server_result == server_advance(self.cfg, state.state, input).val IN
         Some([action |-> server_result.action,
               state |-> ServerState(server_result.state),
               outputs |-> server_result.outputs])
    ELSE None

-----------------------------------------------------------------------------
(* response_values *)

\* filter_map(..).collect(): the values of the Respond messages, in the
\* order of the network.
RECURSIVE collect(_, _)
collect(net, i) ==
    IF i > Len(net) THEN <<>>
    ELSE IF net[i].msg.type = "Respond"
         THEN <<net[i].msg.value>> \o collect(net, i + 1)
         ELSE collect(net, i + 1)

\* Where v goes in the sorted sequence s: after the elements that are
\* less than or equal to it.
RECURSIVE insert_sorted(_, _)
insert_sorted(s, v) ==
    IF s = <<>> THEN <<v>>
    ELSE IF Head(s) <= v THEN <<Head(s)>> \o insert_sorted(Tail(s), v)
         ELSE <<v>> \o s

\* Vec::sort
RECURSIVE sort(_)
sort(s) == IF s = <<>> THEN <<>> ELSE insert_sorted(sort(Tail(s)), Head(s))

\* Vec::dedup: of consecutive equal elements only the first is kept.
RECURSIVE dedup(_)
dedup(s) ==
    IF Len(s) < 2 THEN s
    ELSE IF s[1] = s[2] THEN dedup(Tail(s))
         ELSE <<s[1]>> \o dedup(Tail(s))

\* response_values that sorts and does not remove the duplicates.
response_values_no_dedup(state) == sort(collect(state.network, 1))

response_values(state) == dedup(sort(collect(state.network, 1)))

-----------------------------------------------------------------------------
(* The engine: it starts in a state pushed by init and moves to any state   *)
(* pushed by next.                                                          *)

Goto(step) ==
    /\ rm_state' = step[2].rm_state
    /\ tm_state' = step[2].tm_state
    /\ tm_prepared' = step[2].tm_prepared
    /\ msgs' = step[2].msgs
    /\ UNCHANGED <<rms, regVars, snapVars>>

Steps == next(TwoPhaseSys, TwoPhaseState, <<>>)

\* Each action is a step of the engine along a result that next pushed under
\* the label of one rule.

TmRcvPrepared ==
    LET pushed == Steps IN
    \E i \in DOMAIN pushed : pushed[i][1] = "TM got prepared msg" /\ Goto(pushed[i])

TmCommit ==
    LET pushed == Steps IN
    \E i \in DOMAIN pushed : pushed[i][1] = "TM was able to commit and has informed RMs" /\ Goto(pushed[i])

TmAbort ==
    LET pushed == Steps IN
    \E i \in DOMAIN pushed : pushed[i][1] = "TM chose to abort" /\ Goto(pushed[i])

RmPrepare ==
    LET pushed == Steps IN
    \E i \in DOMAIN pushed : pushed[i][1] = "RM is preparing" /\ Goto(pushed[i])

RmChooseToAbort ==
    LET pushed == Steps IN
    \E i \in DOMAIN pushed : pushed[i][1] = "RM is choosing to abort" /\ Goto(pushed[i])

RmRcvCommitMsg ==
    LET pushed == Steps IN
    \E i \in DOMAIN pushed : pushed[i][1] = "RM is being told to commit" /\ Goto(pushed[i])

RmRcvAbortMsg ==
    LET pushed == Steps IN
    \E i \in DOMAIN pushed : pushed[i][1] = "RM is being told to abort" /\ Goto(pushed[i])

Next ==
    \/ TmRcvPrepared
    \/ TmCommit
    \/ TmAbort
    \/ RmPrepare
    \/ RmChooseToAbort
    \/ RmRcvCommitMsg
    \/ RmRcvAbortMsg

\* No wrapper actor and no network snapshot.
RegIdle == cfg = None /\ actor_state = None /\ ret = NoCall

SnapIdle == network = <<>> /\ values = None

\* The system starts in a state that init pushes for its configuration.
InitOf(R) ==
    /\ RegIdle /\ SnapIdle
    /\ rms = R
    /\ \E i \in DOMAIN init([rms |-> R], <<>>) :
         LET step == init([rms |-> R], <<>>)[i] IN
           /\ rm_state = step[2].rm_state
           /\ tm_state = step[2].tm_state
           /\ tm_prepared = step[2].tm_prepared
           /\ msgs = step[2].msgs

\* Any configuration of resource managers with ids up to MaxRM.
Init == \E R \in SUBSET (1 .. MaxRM) : InitOf(R)

Spec == Init /\ [][Next]_vars

\* A step of the engine along one of the results of a rule instance.
Fire(results) == \E i \in DOMAIN results : Goto(results[i])

\* The engine under weak fairness of every rule instance: an instance that
\* stays able to change the state is eventually taken.
FairSpec ==
    /\ Init /\ [][Next]_vars
    /\ WF_vars(Fire(tm_commit(TwoPhaseSys, TwoPhaseState, <<>>)))
    /\ WF_vars(Fire(tm_abort(TwoPhaseSys, TwoPhaseState, <<>>)))
    /\ \A rm \in 1 .. MaxRM :
         /\ WF_vars(rm \in rms
                    /\ Fire(tm_rcv_prepared(TwoPhaseSys, rm, TwoPhaseState, <<>>)))
         /\ WF_vars(rm \in rms
                    /\ Fire(rm_prepare(TwoPhaseSys, rm, TwoPhaseState, <<>>)))
         /\ WF_vars(rm \in rms
                    /\ Fire(rm_choose_to_abort(TwoPhaseSys, rm, TwoPhaseState, <<>>)))
         /\ WF_vars(rm \in rms
                    /\ Fire(rm_rcv_commit_msg(TwoPhaseSys, rm, TwoPhaseState, <<>>)))
         /\ WF_vars(rm \in rms
                    /\ Fire(rm_rcv_abort_msg(TwoPhaseSys, rm, TwoPhaseState, <<>>)))

\* next is a function of a configuration and a state: here the state the
\* caller passes is any TwoPhaseState over the configuration.
AnyInit ==
    /\ RegIdle /\ SnapIdle
    /\ \E R \in SUBSET (1 .. MaxAnyRM) :
         /\ rms = R
         /\ rm_state \in [R -> RmState]
         /\ tm_state \in TmState
         /\ tm_prepared \in SUBSET R
         /\ msgs \in SUBSET Message(R)

AnySpec == AnyInit /\ [][Next]_vars

\* The configuration of the test can_model_2pc: resource managers 1 to 5.
TestInit == InitOf(1 .. TestRmCount)

TestSpec == TestInit /\ [][Next]_vars

-----------------------------------------------------------------------------
(* The wrapper actor under the actor runtime: the runtime starts the actor  *)
(* once, then delivers messages to it; when advance returns a result the    *)
(* actor takes the state of the result.  ret records the last call.         *)

Ids == 1 .. MaxId

Values == 0 .. MaxValue

SeqsUpTo(S, n) == UNION {[1 .. k -> S] : k \in 0 .. n}

ClientCfgs ==
    {Client(ids, v) : ids \in SeqsUpTo(Ids, MaxServers), v \in Values}

ServerCfgs == {ServerCfg([peers |-> p]) : p \in SeqsUpTo(Ids, MaxServers)}

RegisterMsgs ==
    {Put(v) : v \in Values} \cup {Get} \cup {Respond(v) : v \in Values}
        \cup {Internal(v) : v \in Values}

Inputs == {Deliver(src, m) : src \in Ids, m \in RegisterMsgs}

RegisterStates == {ClientState} \cup {ServerState(v) : v \in Values}

TpcIdle ==
    /\ rms = {}
    /\ rm_state = <<>>
    /\ tm_state = "Init"
    /\ tm_prepared = {}
    /\ msgs = {}

RegStart ==
    /\ actor_state = None
    /\ ret' = [call |-> "start", val |-> start(cfg)]
    /\ actor_state' = start(cfg).state
    /\ UNCHANGED <<cfg, tpcVars, snapVars>>

RegAdvance ==
    /\ actor_state # None
    /\ \E input \in Inputs :
         LET result == advance(cfg, actor_state, input) IN
           /\ ret' = [call |-> "advance", state |-> actor_state,
                      input |-> input, val |-> result]
           /\ actor_state' =
                IF result.tag = "Some" THEN result.val.state ELSE actor_state
    /\ UNCHANGED <<cfg, tpcVars, snapVars>>

RegNext == RegStart \/ RegAdvance

\* An actor of any configuration, not yet started.
RegInit ==
    /\ TpcIdle /\ SnapIdle
    /\ cfg \in ClientCfgs \cup ServerCfgs
    /\ actor_state = None
    /\ ret = NoCall

RegSpec == RegInit /\ [][RegNext]_vars

\* advance is a function of a configuration and a state: here the state the
\* caller passes is any RegisterState, whatever the configuration.
RegAnyInit ==
    /\ TpcIdle /\ SnapIdle
    /\ cfg \in ClientCfgs \cup ServerCfgs
    /\ actor_state \in {None} \cup RegisterStates
    /\ ret = NoCall

RegAnySpec == RegAnyInit /\ [][RegNext]_vars

-----------------------------------------------------------------------------
(* response_values applied to a network snapshot *)

Envelope(msg) == [src |-> 1, dst |-> 2, msg |-> msg]

SnapMsgs ==
    {Put(v) : v \in Values} \cup {Get} \cup {Respond(v) : v \in Values}
        \cup {Internal(0)}

ResponseValues ==
    /\ values' = Some(response_values([network |-> network]))
    /\ UNCHANGED <<network, tpcVars, regVars>>

SnapNext == ResponseValues

\* Any network of at most MaxNet envelopes, in any order.
SnapInit ==
    /\ TpcIdle /\ RegIdle
    /\ network \in SeqsUpTo({Envelope(m) : m \in SnapMsgs}, MaxNet)
    /\ values = None

SnapSpec == SnapInit /\ [][SnapNext]_vars

-----------------------------------------------------------------------------
(* The checker of the engine, as the test can_model_2pc uses it: it visits  *)
(* the states init pushes and every state next pushes for a visited state.  *)

States(results) == {results[i][2] : i \in DOMAIN results}

RECURSIVE check(_, _, _)
check(sys, visited, pending) ==
    IF pending = {} THEN visited
    ELSE LET found == UNION {States(next(sys, s, <<>>)) : s \in pending}
         IN  check(sys, visited \cup found, found \ visited)

checker_visited(sys) ==
    check(sys, States(init(sys, <<>>)), States(init(sys, <<>>)))

-----------------------------------------------------------------------------
(* Properties of the two phase commit system *)

\* C1: in every reachable state, for every configuration, no two configured
\* resource managers are one Aborted and the other Committed.
C1_NeverAbortedAndCommitted ==
    ~ \E rm1 \in rms : \E rm2 \in rms :
        rm_state[rm1] = "Aborted" /\ rm_state[rm2] = "Committed"

\* One resource manager has committed while another is still only prepared.
C1_Witness ==
    \E rm1 \in rms : \E rm2 \in rms :
        rm_state[rm1] = "Committed" /\ rm_state[rm2] = "Prepared"

\* C2: with exactly 5 resource managers the checker visits exactly 8832
\* distinct states, and is_consistent holds of every one of them.  The count
\* belongs to the configuration, so it is stated once, at the initial state.
C2_TestVisits8832Consistent ==
    /\ is_consistent(TwoPhaseSys, TwoPhaseState)
    /\ TwoPhaseState \in States(init(TwoPhaseSys, <<>>)) =>
         LET visited == checker_visited(TwoPhaseSys) IN
           /\ Cardinality(visited) = 8832
           /\ \A s \in visited : is_consistent(TwoPhaseSys, s)

\* The five resource managers of the test have all committed.
C2_Witness ==
    /\ Cardinality(rms) = 5
    /\ \A rm \in rms : rm_state[rm] = "Committed"

\* C3: along every transition the messages of the successor include those of
\* the predecessor.
C3_MsgsNeverShrink == [][msgs \subseteq msgs']_vars

\* The Commit message has joined the Prepared messages of two managers.
C3_Witness ==
    /\ Commit \in msgs
    /\ \E rm1 \in rms : \E rm2 \in rms :
         rm1 # rm2 /\ Prepared(rm1) \in msgs /\ Prepared(rm2) \in msgs

\* The moves of the lifecycle of a resource manager.
RmLifecycle ==
    {<<"Working", "Prepared">>, <<"Working", "Aborted">>,
     <<"Prepared", "Committed">>, <<"Prepared", "Aborted">>}

\* C4: along every transition between reachable states the status of each
\* resource manager stays the same or makes one move of the lifecycle, so
\* Committed and Aborted are never left and Working never becomes Committed.
C4_RmStatusMovesForward ==
    [][\A rm \in rms :
          \/ rm_state'[rm] = rm_state[rm]
          \/ <<rm_state[rm], rm_state'[rm]>> \in RmLifecycle]_vars

\* A resource manager that had prepared was told to abort, while another
\* one aborted of its own choice.
C4_Witness ==
    \E rm1 \in rms : \E rm2 \in rms :
        /\ rm_state[rm1] = "Aborted" /\ Prepared(rm1) \in msgs
        /\ rm_state[rm2] = "Aborted" /\ Prepared(rm2) \notin msgs

\* C5: once the transaction manager has left Init, neither tm_commit nor
\* tm_abort pushes a result, and tm_state never changes again.
C5_TmResolvesOnce ==
    /\ [](tm_state # "Init" =>
            /\ tm_commit(TwoPhaseSys, TwoPhaseState, <<>>) = <<>>
            /\ tm_abort(TwoPhaseSys, TwoPhaseState, <<>>) = <<>>)
    /\ [][tm_state # "Init" => tm_state' = tm_state]_vars

\* The transaction manager aborted when every resource manager had prepared
\* and it knew: tm_commit would fire if it looked at tm_prepared alone.
C5_Witness ==
    /\ tm_state = "Aborted"
    /\ rms # {}
    /\ tm_prepared = rms

\* C6: every transition in which tm_state becomes Committed starts where
\* tm_state is Init and tm_prepared is the whole configuration; so wherever
\* tm_state is Committed, tm_prepared is the whole configuration.
C6_CommitOnlyWhenAllPrepared ==
    /\ [][tm_state' = "Committed" /\ tm_state # "Committed" =>
             tm_state = "Init" /\ tm_prepared = rms]_vars
    /\ [](tm_state = "Committed" => tm_prepared = rms)

\* The transaction manager committed for three resource managers.
C6_Witness ==
    /\ tm_state = "Committed"
    /\ Cardinality(rms) >= 3
    /\ \E rm \in rms : rm_state[rm] = "Prepared"

\* The rule table: the instances of the rules over a configuration, the
\* guard of each and its effect on a state.
RuleInstances(R) ==
    {[rule |-> "TM commits"], [rule |-> "TM aborts"]}
        \cup {[rule |-> r, rm |-> rm] :
                r \in {"TM receives prepared", "RM prepares",
                       "RM chooses to abort", "RM receives commit",
                       "RM receives abort"},
                rm \in R}

RuleGuard(R, st, inst) ==
    CASE inst.rule = "RM prepares" -> st.rm_state[inst.rm] = "Working"
      [] inst.rule = "RM chooses to abort" -> st.rm_state[inst.rm] = "Working"
      [] inst.rule = "TM receives prepared" ->
           st.tm_state = "Init" /\ Prepared(inst.rm) \in st.msgs
      [] inst.rule = "TM commits" -> st.tm_state = "Init" /\ st.tm_prepared = R
      [] inst.rule = "TM aborts" -> st.tm_state = "Init"
      [] inst.rule = "RM receives commit" -> Commit \in st.msgs
      [] inst.rule = "RM receives abort" -> Abort \in st.msgs

RuleEffect(st, inst) ==
    CASE inst.rule = "RM prepares" ->
           [st EXCEPT !.rm_state[inst.rm] = "Prepared",
                      !.msgs = @ \cup {Prepared(inst.rm)}]
      [] inst.rule = "RM chooses to abort" ->
           [st EXCEPT !.rm_state[inst.rm] = "Aborted"]
      [] inst.rule = "TM receives prepared" ->
           [st EXCEPT !.tm_prepared = @ \cup {inst.rm}]
      [] inst.rule = "TM commits" ->
           [st EXCEPT !.tm_state = "Committed", !.msgs = @ \cup {Commit}]
      [] inst.rule = "TM aborts" ->
           [st EXCEPT !.tm_state = "Aborted", !.msgs = @ \cup {Abort}]
      [] inst.rule = "RM receives commit" ->
           [st EXCEPT !.rm_state[inst.rm] = "Committed"]
      [] inst.rule = "RM receives abort" ->
           [st EXCEPT !.rm_state[inst.rm] = "Aborted"]

\* The label under which next pushes the result of a rule.
RuleLabel(inst) ==
    CASE inst.rule = "RM prepares" -> "RM is preparing"
      [] inst.rule = "RM chooses to abort" -> "RM is choosing to abort"
      [] inst.rule = "TM receives prepared" -> "TM got prepared msg"
      [] inst.rule = "TM commits" -> "TM was able to commit and has informed RMs"
      [] inst.rule = "TM aborts" -> "TM chose to abort"
      [] inst.rule = "RM receives commit" -> "RM is being told to commit"
      [] inst.rule = "RM receives abort" -> "RM is being told to abort"

\* C7: for every configuration and every state over it, next pushes exactly
\* one result for each rule instance whose guard holds, with the effect of
\* the rule applied, and none for an instance whose guard does not hold:
\* each labelled successor is pushed as many times as there are enabled
\* instances that yield it.
C7_NextIsTheEnabledRules ==
    LET pushed == next(TwoPhaseSys, TwoPhaseState, <<>>)
        enabled == {inst \in RuleInstances(rms) :
                      RuleGuard(rms, TwoPhaseState, inst)}
        expected(inst) == <<RuleLabel(inst), RuleEffect(TwoPhaseState, inst)>>
    IN  /\ Len(pushed) = Cardinality(enabled)
        /\ \A inst \in enabled :
             Cardinality({i \in DOMAIN pushed : pushed[i] = expected(inst)})
               = Cardinality({other \in enabled : expected(other) = expected(inst)})

\* Several rule instances are enabled at once: both resource managers can
\* prepare or abort, and the transaction manager can abort or take a
\* Prepared message that is in the network.
C7_Witness ==
    /\ Cardinality(rms) = 2
    /\ \A rm \in rms : rm_state[rm] = "Working"
    /\ tm_state = "Init"
    /\ \E rm \in rms : Prepared(rm) \in msgs
    /\ Len(next(TwoPhaseSys, TwoPhaseState, <<>>)) >= 6

\* A resource manager that is Aborted and never broadcast Prepared.
AbortedUnprepared(rm) == rm_state[rm] = "Aborted" /\ Prepared(rm) \notin msgs

\* C8: a resource manager that aborted without preparing stays so, is never
\* in tm_prepared, and the transaction manager is never Committed: no
\* reachable state has a resource manager Aborted, its Prepared message
\* absent, and tm_state Committed.
C8_AbortBeforePrepareBlocksCommit ==
    /\ [](\A rm \in rms :
            AbortedUnprepared(rm) =>
                rm \notin tm_prepared /\ tm_state # "Committed")
    /\ [][\A rm \in rms : AbortedUnprepared(rm) => AbortedUnprepared(rm)']_vars

\* One resource manager chose to abort, the transaction manager has heard
\* of every other one and has not resolved yet.
C8_Witness ==
    /\ Cardinality(rms) >= 2
    /\ tm_state = "Init"
    /\ \E rm \in rms :
         /\ AbortedUnprepared(rm)
         /\ tm_prepared = rms \ {rm}

\* C9: in every reachable state the keys of rm_state are the configured
\* resource managers.
C9_RmStateKeysAreTheConfiguration == DOMAIN rm_state = rms

\* Every one of three resource managers has had its status replaced.
C9_Witness ==
    /\ Cardinality(rms) = 3
    /\ \A rm \in rms : rm_state[rm] \in {"Committed", "Aborted"}

-----------------------------------------------------------------------------
(* Properties of the register wrapper *)

\* C10: for a Client configuration with server ids s1 .. sn and desired value
\* V, start returns the Client state and exactly 2n outputs, in this order:
\* Put(V) to s1, Get to s1, ..., Put(V) to sn, Get to sn; none is a Respond
\* or an Internal message.
C10_ClientStartSendsPutThenGet ==
    (cfg.tag = "Client" /\ ret.call = "start") =>
        LET outputs == ret.val.outputs
            n == Len(cfg.server_ids)
        IN  /\ ret.val.state = ClientState
            /\ Len(outputs) = 2 * n
            /\ \A i \in 1 .. n :
                 /\ outputs[2 * i - 1] =
                      [dst |-> cfg.server_ids[i], msg |-> Put(cfg.desired_value)]
                 /\ outputs[2 * i] = [dst |-> cfg.server_ids[i], msg |-> Get]
            /\ \A i \in DOMAIN outputs :
                 outputs[i].msg.type \notin {"Respond", "Internal"}

\* A client of two different servers has started.
C10_Witness ==
    /\ cfg.tag = "Client"
    /\ ret.call = "start"
    /\ Len(cfg.server_ids) = 2
    /\ cfg.server_ids[1] # cfg.server_ids[2]
    /\ cfg.desired_value > 0
    /\ Len(ret.val.outputs) = 4

\* C11: advance on a Client state returns None for every input and every
\* configuration, Client or Server, and a Client configuration returns None
\* for every state; the actor keeps its state and sends nothing.
C11_ClientNeverAdvances ==
    (ret.call = "advance" /\ (ret.state = ClientState \/ cfg.tag = "Client")) =>
        /\ ret.val = None
        /\ actor_state = ret.state

\* A Server configuration was handed a Client state and a Get.
C11_Witness ==
    /\ ret.call = "advance"
    /\ cfg.tag = "Server"
    /\ ret.state = ClientState
    /\ ret.input.msg = Get

\* The result of the wrapped server, with its state tagged Server.
Relabelled(server_result) ==
    [action |-> server_result.action,
     state |-> ServerState(server_result.state),
     outputs |-> server_result.outputs]

\* C12: for a Server configuration start returns the result of the start of
\* the wrapped server with the state tagged Server, and advance on a Server
\* state returns None exactly when the wrapped server does, and otherwise
\* its result with the state tagged Server; the state of the actor is always
\* the tagged state of the wrapped server.
C12_ServerWrapperRelabels ==
    cfg.tag = "Server" =>
        /\ ret.call = "start" =>
             /\ ret.val = Relabelled(server_start(cfg.cfg))
             /\ actor_state = ServerState(server_start(cfg.cfg).state)
        /\ (ret.call = "advance" /\ ret.state.tag = "Server") =>
             LET inner == server_advance(cfg.cfg, ret.state.state, ret.input) IN
               /\ ret.val = None <=> inner = None
               /\ inner # None =>
                    /\ ret.val = Some(Relabelled(inner.val))
                    /\ actor_state = ServerState(inner.val.state)
               /\ inner = None => actor_state = ret.state

\* A wrapped server that holds a value other than the one it started with
\* answered a Get.
C12_Witness ==
    /\ cfg.tag = "Server"
    /\ ret.call = "advance"
    /\ ret.state.tag = "Server"
    /\ ret.state.state > 0
    /\ ret.input.msg = Get
    /\ ret.val # None
    /\ Len(ret.val.val.outputs) = 1

\* C13: response_values returns exactly the values v some envelope of the
\* network carries as Respond(v), in strictly increasing order; envelopes
\* with Put, Get or Internal add nothing, and without a Respond envelope
\* the result is empty.
C13_ResponseValuesSortedUnique ==
    values # None =>
        LET out == values.val IN
          /\ {out[i] : i \in DOMAIN out} =
               {network[i].msg.value :
                  i \in {j \in DOMAIN network : network[j].msg.type = "Respond"}}
          /\ \A i \in DOMAIN out : \A j \in DOMAIN out : i < j => out[i] < out[j]

\* The network held Respond(3), Respond(1), Respond(3) and the result was
\* the sequence 1, 3.
C13_Witness ==
    /\ values # None
    /\ Len(network) = 3
    /\ network[1].msg = Respond(3)
    /\ network[2].msg = Respond(1)
    /\ network[3].msg = Respond(3)
    /\ values.val = <<1, 3>>

-----------------------------------------------------------------------------
(* Further properties of the two phase commit system *)

\* C14: for the configuration without resource managers init pushes exactly
\* one state, with an empty rm_state, tm_state Init, and empty tm_prepared
\* and msgs; is_consistent holds of it and of every state reachable from it.
C14_EmptyConfiguration ==
    /\ States(init([rms |-> {}], <<>>)) =
         {[rm_state |-> <<>>, tm_state |-> "Init",
           tm_prepared |-> {}, msgs |-> {}]}
    /\ Len(init([rms |-> {}], <<>>)) = 1
    /\ rms = {} => is_consistent(TwoPhaseSys, TwoPhaseState)

\* Without resource managers the transaction manager has committed.
C14_Witness ==
    /\ rms = {}
    /\ rm_state = <<>>
    /\ tm_state = "Committed"
    /\ msgs = {Commit}

\* Every state of the pushed results satisfies frame, which says what a rule
\* leaves as it is in the current state.
Keeps(pushed, frame(_)) == \A i \in DOMAIN pushed : frame(pushed[i][2])

\* The status of every resource manager but rm is as in the current state.
OthersUnchanged(s, rm) ==
    /\ DOMAIN s.rm_state = DOMAIN rm_state
    /\ \A other \in DOMAIN rm_state \ {rm} : s.rm_state[other] = rm_state[other]

\* C15: each rule changes only the fields of its effect.  tm_rcv_prepared
\* changes only tm_prepared; tm_commit and tm_abort only tm_state and msgs;
\* rm_prepare only rm_state[rm] and msgs; rm_choose_to_abort,
\* rm_rcv_commit_msg and rm_rcv_abort_msg only rm_state[rm].
C15_RulesKeepTheirFrame ==
    LET sys == TwoPhaseSys
        st == TwoPhaseState
        TmFrame(s) == s.rm_state = rm_state /\ s.tm_prepared = tm_prepared
    IN  /\ Keeps(tm_commit(sys, st, <<>>), TmFrame)
        /\ Keeps(tm_abort(sys, st, <<>>), TmFrame)
        /\ \A rm \in rms :
             LET PreparedFrame(s) ==
                   s.rm_state = rm_state /\ s.tm_state = tm_state /\ s.msgs = msgs
                 PrepareFrame(s) ==
                   /\ OthersUnchanged(s, rm)
                   /\ s.tm_state = tm_state /\ s.tm_prepared = tm_prepared
                 RmFrame(s) == PrepareFrame(s) /\ s.msgs = msgs
             IN  /\ Keeps(tm_rcv_prepared(sys, rm, st, <<>>), PreparedFrame)
                 /\ Keeps(rm_prepare(sys, rm, st, <<>>), PrepareFrame)
                 /\ Keeps(rm_choose_to_abort(sys, rm, st, <<>>), RmFrame)
                 /\ Keeps(rm_rcv_commit_msg(sys, rm, st, <<>>), RmFrame)
                 /\ Keeps(rm_rcv_abort_msg(sys, rm, st, <<>>), RmFrame)

\* Three resource managers, one Working, one Prepared and known to the
\* transaction manager, one Aborted of its own choice: five of the rules
\* push a result here.
C15_Witness ==
    /\ Cardinality(rms) = 3
    /\ tm_state = "Init"
    /\ \E rm1 \in rms : \E rm2 \in rms : \E rm3 \in rms :
         /\ rm_state[rm1] = "Working"
         /\ rm_state[rm2] = "Prepared" /\ rm2 \in tm_prepared
         /\ AbortedUnprepared(rm3)

\* C16: every id in tm_prepared is a configured resource manager whose
\* Prepared message is in msgs and whose status is not Working.
C16_TmPreparedHavePrepared ==
    \A rm \in tm_prepared :
        /\ rm \in rms
        /\ Prepared(rm) \in msgs
        /\ rm_state[rm] # "Working"

\* The transaction manager knows of two prepared resource managers, one of
\* them already told to abort.
C16_Witness ==
    \E rm1 \in tm_prepared : \E rm2 \in tm_prepared :
        rm_state[rm1] = "Prepared" /\ rm_state[rm2] = "Aborted"

\* C17: Commit is in msgs exactly when tm_state is Committed, and Abort
\* exactly when tm_state is Aborted; so msgs never holds both, and neither
\* while tm_state is Init.
C17_DecisionMessageIffDecided ==
    /\ Commit \in msgs <=> tm_state = "Committed"
    /\ Abort \in msgs <=> tm_state = "Aborted"
    /\ ~ (Commit \in msgs /\ Abort \in msgs)
    /\ tm_state = "Init" => Commit \notin msgs /\ Abort \notin msgs

\* The transaction manager aborted after a resource manager had prepared.
C17_Witness ==
    /\ tm_state = "Aborted"
    /\ Abort \in msgs
    /\ \E rm \in rms : Prepared(rm) \in msgs /\ rm_state[rm] = "Prepared"

\* C18: if any resource manager is Committed then tm_state is Committed,
\* Commit is in msgs and every configured resource manager is Prepared or
\* Committed.
C18_CommittedRmMeansAllAgreed ==
    (\E rm \in rms : rm_state[rm] = "Committed") =>
        /\ tm_state = "Committed"
        /\ Commit \in msgs
        /\ \A rm \in rms : rm_state[rm] \in {"Prepared", "Committed"}

\* Of three resource managers exactly one has committed so far.
C18_Witness ==
    /\ Cardinality(rms) = 3
    /\ Cardinality({rm \in rms : rm_state[rm] = "Committed"}) = 1

\* How far a state has advanced: every rule that changes the state adds a
\* message, adds to tm_prepared, or moves a status forward.
Rank(status) ==
    CASE status \in {"Working", "Init"} -> 0
      [] status = "Prepared" -> 1
      [] OTHER -> 2

RECURSIVE SumRanks(_, _)
SumRanks(m, todo) ==
    IF todo = {} THEN 0
    ELSE LET k == CHOOSE x \in todo : TRUE
         IN  Rank(m[k]) + SumRanks(m, todo \ {k})

Progress(s) ==
    Cardinality(s.msgs) + Cardinality(s.tm_prepared) + Rank(s.tm_state)
        + SumRanks(s.rm_state, DOMAIN s.rm_state)

\* C19: every result that next pushes for a reachable state is that state
\* again or a state that has strictly advanced, and the advance is bounded
\* for a configuration; so the state graph has no cycle but self-loops and
\* every sequence of state-changing transitions is finite.
C19_OnlySelfLoops ==
    /\ \A s \in States(Steps) : s = TwoPhaseState \/ Progress(s) > Progress(TwoPhaseState)
    /\ Progress(TwoPhaseState) <= 4 * Cardinality(rms) + 3

\* next pushes the state it was given: a Committed resource manager is told
\* to commit again, while another one has yet to be told.
C19_Witness ==
    /\ TwoPhaseState \in States(Steps)
    /\ \E rm1 \in rms : \E rm2 \in rms :
         rm_state[rm1] = "Committed" /\ rm_state[rm2] = "Prepared"
    /\ Cardinality(rms) = 3

\* The transaction manager has decided and every configured resource
\* manager holds the status of the decision.
Resolved ==
    /\ tm_state \in {"Committed", "Aborted"}
    /\ \A rm \in rms : rm_state[rm] = tm_state

\* Every result that next pushes is the current state again.
Quiescent == \A s \in States(Steps) : s = TwoPhaseState

\* C20: under weak fairness of every rule instance every behaviour
\* eventually reaches, and then stays in, a state where tm_state is
\* Committed or Aborted and every configured resource manager holds that
\* same status; and every reachable state in which no transition changes
\* the state is such a state.
C20_EventuallyResolved ==
    /\ <>[]Resolved
    /\ [](Quiescent => Resolved)

\* Three resource managers, all of which had prepared, have all been told
\* to abort, and nothing can change any more.
C20_Witness ==
    /\ Resolved
    /\ Quiescent
    /\ Cardinality(rms) = 3
    /\ tm_state = "Aborted"
    /\ \A rm \in rms : Prepared(rm) \in msgs

====
